---- MODULE Spec2Model ----
(***************************************************************************)
(* A model of src/App.py: the Streamlit script that opens an uploaded IFC  *)
(* file, extracts one record per building element (extract_elements, with  *)
(* build_storey_map and get_volume_from_quantities), sorts the records and *)
(* shows them.                                                             *)
(*                                                                         *)
(* Representation of Python values:                                        *)
(*   - an optional string (GlobalId, Name, ...) is a string, with None     *)
(*     written "None" (what str(None) gives, which is what the f-string of *)
(*     line 21 prints);                                                    *)
(*   - a numeric cell (a quantity value, Volume_m3) is a record            *)
(*     [k, v] with k in {"none", "nan", "float", "str"};                   *)
(*   - an optional object (the uploaded file, the opened model, the        *)
(*     DataFrame) is a sequence of length 0 or 1.                          *)
(* Lengths are integers (a scale s stands for s metres per model unit), so *)
(* v * s^3 is exact.                                                       *)
(***************************************************************************)
EXTENDS Integers, Sequences, FiniteSets, TLC

VARIABLES
    uploaded,    \* st.file_uploader's value: <<>> or <<file>>
    pc,          \* position of the script run
    model,       \* <<>> or <<the opened model>>
    storey_map,  \* extract_elements' storey_map (a dict: function on its keys)
    rows,        \* extract_elements' rows
    origin,      \* history: origin[i] is the index of the entity rows[i] was built from
    df,          \* <<>> or <<the DataFrame returned by extract_elements>>
    exc,         \* the exception that ended the run uncaught, or "none"
    out          \* what the page shows

vars == <<uploaded, pc, model, storey_map, rows, origin, df, exc, out>>

-----------------------------------------------------------------------------
(* Bounds of the inputs.                                                   *)

MaxEntities == 2      \* entities in an uploaded model
MaxRels == 2          \* IfcRelContainedInSpatialStructure records in a model
MaxDefRels == 2       \* IsDefinedBy relationships of an element
MaxQuantities == 3    \* quantities of an element, over its quantity sets
MaxSortEntities == 3  \* entities in a model whose records are sorted

-----------------------------------------------------------------------------
(* Python values.                                                          *)

None == "None"

NoneCell == [k |-> "none", v |-> 0]
NaN == [k |-> "nan", v |-> 0]
Float(n) == [k |-> "float", v |-> n]
Str == [k |-> "str", v |-> 0]          \* a value float() cannot convert

\* Python truthiness of an optional string, as `or` tests it.
Truthy(s) == s # None /\ s # ""

\* a or b or c on optional strings.
Or3(a, b, c) == IF Truthy(a) THEN a ELSE IF Truthy(b) THEN b ELSE c

SeqsUpTo(S, n) == UNION {[1..k -> S] : k \in 0..n}

\* str.startswith
startswith(s, p) == Len(s) >= Len(p) /\ SubSeq(s, 1, Len(p)) = p

-----------------------------------------------------------------------------
(* The model handle: what ifcopenshell.open returns.                        *)
(*   entities : the IfcProduct instances of the file, in file order, each  *)
(*              [type, GlobalId, Name, LongName, ObjectType,               *)
(*               PredefinedType, IsDefinedBy]                              *)
(*   rels     : the IfcRelContainedInSpatialStructure instances, each      *)
(*              [RelatingStructure, RelatedElements], RelatedElements a    *)
(*              sequence of indices into entities                          *)
(*   scale    : the length unit scale                                      *)

\* The IFC schema's supertype of each entity type of the model.
Supertype(t) ==
    CASE t = "IfcWallStandardCase" -> "IfcWall"
      [] t = "IfcWall" -> "IfcBuildingElement"
      [] t = "IfcSlab" -> "IfcBuildingElement"
      [] t = "IfcBuildingElementProxy" -> "IfcBuildingElement"
      [] t = "IfcBuildingElement" -> "IfcElement"
      [] t = "IfcFurniture" -> "IfcElement"
      [] t = "IfcElement" -> "IfcProduct"
      [] t = "IfcBuildingStorey" -> "IfcSpatialStructureElement"
      [] t = "IfcBuilding" -> "IfcSpatialStructureElement"
      [] t = "IfcSite" -> "IfcSpatialStructureElement"
      [] t = "IfcSpatialStructureElement" -> "IfcProduct"
      [] OTHER -> "IfcRoot"

\* entity.is_a(tag): the entity's type is tag or a subtype of it.
RECURSIVE is_a(_, _)
is_a(t, tag) ==
    IF t = tag THEN TRUE
    ELSE IF t = "IfcRoot" THEN FALSE
    ELSE is_a(Supertype(t), tag)

\* model.by_type(tag): the indices of the entities of that type or a subtype,
\* in file order; none for a tag that names no type of the model.
by_type(m, tag) ==
    SelectSeq([i \in 1..Len(m.entities) |-> i],
              LAMBDA i : is_a(m.entities[i].type, tag))

candidate_types ==
    << "IfcWall", "IfcWallStandardCase", "IfcSlab", "IfcFloor", "IfcColumn",
       "IfcBeam", "IfcRoof", "IfcStair", "IfcFooting", "IfcCovering",
       "IfcBeamStandard", "IfcPlate", "IfcMember", "IfcPile", "IfcOpeningElement" >>

-----------------------------------------------------------------------------
(* build_storey_map (lines 16-24).  The result is [raised, map]: raised    *)
(* when the attribute access storey.GlobalId of line 21 fails.             *)

EmptyDict == [k \in {} |-> None]

\* map[key] = val
DictSet(d, key, val) ==
    [k \in DOMAIN d \cup {key} |-> IF k = key THEN val ELSE d[k]]

\* dict.get(key, None)
DictGet(d, key) == IF key \in DOMAIN d THEN d[key] ELSE None

\* getattr(storey, a, None); rel.RelatingStructure may be None.
StoreyAttr(storey, a) == IF storey.present THEN storey[a] ELSE None

\* Line 21 raises AttributeError when the f-string is reached on None.
StoreyNameRaises(storey) ==
    /\ ~Truthy(StoreyAttr(storey, "Name"))
    /\ ~Truthy(StoreyAttr(storey, "LongName"))
    /\ ~storey.present

\* Line 21.
StoreyName(storey) ==
    Or3(StoreyAttr(storey, "Name"), StoreyAttr(storey, "LongName"),
        "Storey_" \o storey.GlobalId)

\* Lines 22-23: the inner loop over rel.RelatedElements.
RECURSIVE related_loop(_, _, _, _, _)
related_loop(m, related, j, name, map) ==
    IF j > Len(related) THEN map
    ELSE related_loop(m, related, j + 1, name,
                      DictSet(map, m.entities[related[j]].GlobalId, name))

\* Lines 19-23: the loop over the relationships, from the i-th on.
RECURSIVE storey_loop(_, _, _)
storey_loop(m, i, map) ==
    IF i > Len(m.rels) THEN [raised |-> FALSE, map |-> map]
    ELSE LET rel == m.rels[i]
             storey == rel.RelatingStructure
         IN IF StoreyNameRaises(storey)
            THEN [raised |-> TRUE, map |-> map]
            ELSE storey_loop(m, i + 1,
                     related_loop(m, rel.RelatedElements, 1, StoreyName(storey), map))

build_storey_map(m) == storey_loop(m, 1, EmptyDict)

-----------------------------------------------------------------------------
(* get_volume_from_quantities (lines 26-51).                               *)

Raise == [k |-> "raise", v |-> 0]

\* Variant: length_scale ** 2
Square(s) == s * s

\* length_scale ** 3
Cube(s) == s * s * s

\* Lines 37-41: hasattr / getattr on the two attribute names.
QuantityVal(q) ==
    IF q.hasVolumeValue THEN q.VolumeValue
    ELSE IF q.hasVolume THEN q.Volume
    ELSE NoneCell

\* Line 47: float(val) * (length_scale ** 3); float() raises on a non-number.
ToM3(val, s) == IF val.k = "float" THEN Float(val.v * Cube(s)) ELSE Raise

\* Lines 33-48: the loop over propdef.Quantities, from the j-th on.  NoneCell
\* means the loop ended without returning.
RECURSIVE quantities_loop(_, _, _)
quantities_loop(qs, j, s) ==
    IF j > Len(qs) THEN NoneCell
    ELSE LET q == qs[j]
             val == QuantityVal(q)
         IN IF q.kind = "IfcQuantityVolume" /\ val.k # "none"
            THEN ToM3(val, s)
            ELSE quantities_loop(qs, j + 1, s)

\* Lines 30-48: the loop over element.IsDefinedBy, from the i-th on.
RECURSIVE defined_by_loop(_, _, _)
defined_by_loop(defs, i, s) ==
    IF i > Len(defs) THEN NoneCell
    ELSE LET propdef == defs[i].RelatingPropertyDefinition
             r == IF propdef.kind = "IfcElementQuantity"
                  THEN quantities_loop(propdef.Quantities, 1, s)
                  ELSE NoneCell
         IN IF r.k # "none" THEN r ELSE defined_by_loop(defs, i + 1, s)

\* Variant: the try block without its except clause.
get_volume_uncaught(element, m) == defined_by_loop(element.IsDefinedBy, 1, m.scale)

\* Lines 28-51: try ... except Exception: pass; return None.
get_volume_from_quantities(element, m) ==
    LET r == defined_by_loop(element.IsDefinedBy, 1, m.scale)
    IN IF r.k = "raise" THEN NoneCell ELSE r

\* Lines 53-57.
fallback_geometry_volume(element) == NoneCell

-----------------------------------------------------------------------------
(* extract_elements (lines 59-123).  A sweep's result is                   *)
(* [raised, rows, origin]: raised when a call it makes raised.             *)

\* Lines 74-92 and 100-116: the record built from an entity.
Row(el, volume, smap) ==
    [ GlobalId  |-> el.GlobalId,
      IfcClass  |-> el.type,
      TypeName  |-> Or3(el.ObjectType, el.PredefinedType, ""),
      Name      |-> Or3(el.Name, el.LongName, ""),
      Level     |-> DictGet(smap, el.GlobalId),
      Volume_m3 |-> volume ]

\* Lines 79-82: the quantities, then the fallback.
CuratedVolume(el, m) ==
    LET volume == get_volume_from_quantities(el, m)
    IN IF volume.k = "none" THEN fallback_geometry_volume(el) ELSE volume

\* Lines 72-73: the entities the nested loops visit, in order, from the t-th
\* candidate type on.
RECURSIVE curated_order(_, _)
curated_order(m, t) ==
    IF t > Len(candidate_types) THEN <<>>
    ELSE by_type(m, candidate_types[t]) \o curated_order(m, t + 1)

\* Lines 72-92: the sweep over the candidate types, from the n-th visit on.
RECURSIVE curated_loop(_, _, _, _, _)
curated_loop(m, smap, order, n, acc) ==
    IF n > Len(order) THEN acc
    ELSE LET el == m.entities[order[n]]
             volume == CuratedVolume(el, m)
         IN IF volume.k = "raise"
            THEN [acc EXCEPT !.raised = TRUE]
            ELSE curated_loop(m, smap, order, n + 1,
                     [acc EXCEPT !.rows = Append(@, Row(el, volume, smap)),
                                 !.origin = Append(@, order[n])])

curated_sweep(m, smap) ==
    curated_loop(m, smap, curated_order(m, 1), 1,
                 [raised |-> FALSE, rows |-> <<>>, origin |-> <<>>])

\* Line 98.
IsSpatial(t) ==
    \/ startswith(t, "IfcBuilding")
    \/ startswith(t, "IfcSite")
    \/ startswith(t, "IfcBuildingStorey")

\* Line 102.
AlreadyIncluded(rs, gid) == \E i \in 1..Len(rs) : rs[i].GlobalId = gid

\* Lines 96-116: the sweep over IfcProduct, from the n-th visit on.
RECURSIVE catchall_loop(_, _, _, _, _)
catchall_loop(m, smap, order, n, acc) ==
    IF n > Len(order) THEN acc
    ELSE LET el == m.entities[order[n]]
             volume == get_volume_from_quantities(el, m)
         IN IF IsSpatial(el.type) \/ AlreadyIncluded(acc.rows, el.GlobalId)
            THEN catchall_loop(m, smap, order, n + 1, acc)
            ELSE IF volume.k = "raise"
            THEN [acc EXCEPT !.raised = TRUE]
            ELSE catchall_loop(m, smap, order, n + 1,
                     [acc EXCEPT !.rows = Append(@, Row(el, volume, smap)),
                                 !.origin = Append(@, order[n])])

catchall_sweep(m, smap, rs, org) ==
    catchall_loop(m, smap, by_type(m, "IfcProduct"), 1,
                  [raised |-> FALSE, rows |-> rs, origin |-> org])

-----------------------------------------------------------------------------
(* Lines 118-123: the DataFrame.                                           *)

\* pd.to_numeric(errors="coerce") on one cell.
to_numeric(c) == IF c.k = "float" THEN c ELSE NaN

\* Series.notna on one cell.
notna(c) == c.k = "float"

\* The characters of the model's strings, in code point order.
Ascii == "0123456789ABCDEFGHIJKLMNOPQRSTUVWXYZ_abcdefghijklmnopqrstuvwxyz"

\* The code point order of the characters.
OrdTable ==
    [c \in {SubSeq(Ascii, i, i) : i \in 1..Len(Ascii)} |->
        CHOOSE i \in 1..Len(Ascii) : SubSeq(Ascii, i, i) = c]

Ord(c) == OrdTable[c]

\* Python's comparison of two strings: -1, 0 or 1.
RECURSIVE CmpStr(_, _)
CmpStr(a, b) ==
    IF a = b THEN 0
    ELSE IF a = "" THEN -1
    ELSE IF b = "" THEN 1
    ELSE LET x == Ord(SubSeq(a, 1, 1))
             y == Ord(SubSeq(b, 1, 1))
         IN IF x < y THEN -1
            ELSE IF x > y THEN 1
            ELSE CmpStr(SubSeq(a, 2, Len(a)), SubSeq(b, 2, Len(b)))

\* Variant: na_position="first".
CmpColNaFirst(a, b) ==
    IF a = None /\ b = None THEN 0
    ELSE IF a = None THEN -1
    ELSE IF b = None THEN 1
    ELSE CmpStr(a, b)

\* One sort column, na_position="last".
CmpCol(a, b) ==
    IF a = None /\ b = None THEN 0
    ELSE IF a = None THEN 1
    ELSE IF b = None THEN -1
    ELSE CmpStr(a, b)

\* The sort keys ["IfcClass", "Level", "Name"], in order.
CmpRows(a, b) ==
    LET c1 == CmpCol(a.IfcClass, b.IfcClass)
        c2 == CmpCol(a.Level, b.Level)
    IN IF c1 # 0 THEN c1
       ELSE IF c2 # 0 THEN c2
       ELSE CmpCol(a.Name, b.Name)

\* Insert r after every record not greater than it (a stable insertion).
RECURSIVE Insert(_, _)
Insert(sorted, r) ==
    IF sorted = <<>> THEN <<r>>
    ELSE IF CmpRows(sorted[Len(sorted)], r) <= 0 THEN Append(sorted, r)
    ELSE Append(Insert(SubSeq(sorted, 1, Len(sorted) - 1), r), sorted[Len(sorted)])

\* DataFrame.sort_values on several columns: a stable sort.
RECURSIVE sort_values(_)
sort_values(rs) ==
    IF rs = <<>> THEN <<>>
    ELSE Insert(sort_values(SubSeq(rs, 1, Len(rs) - 1)), rs[Len(rs)])

\* Line 120 on a DataFrame built from no rows: it has no column "Volume_m3".
AssembleRaises(rs) == rs = <<>>

\* Lines 118-122.
assemble(rs) ==
    sort_values([i \in 1..Len(rs) |->
                    [rs[i] EXCEPT !.Volume_m3 = to_numeric(@)]])

-----------------------------------------------------------------------------
(* The script (lines 125-170), one run of it.                              *)

NoOutput ==
    [status |-> "none", elements |-> 0, vols_present |-> 0,
     table |-> <<>>, download |-> FALSE]

\* Line 125, uploaded is None: the run ends with the uploader alone on the page.
NoUpload ==
    /\ pc = "start"
    /\ uploaded = <<>>
    /\ pc' = "idle"
    /\ UNCHANGED <<uploaded, model, storey_map, rows, origin, df, exc, out>>

\* Lines 128-137: ifcopenshell.open returns the model.
OpenOk ==
    /\ pc = "start"
    /\ uploaded # <<>>
    /\ uploaded[1].parses
    /\ model' = <<uploaded[1].content>>
    /\ pc' = "opened"
    /\ UNCHANGED <<uploaded, storey_map, rows, origin, df, exc, out>>

\* Variant: the except clause reports the failure and the run goes on, with a
\* model of nothing.
OpenFailNoStop ==
    /\ pc = "start"
    /\ uploaded # <<>>
    /\ ~uploaded[1].parses
    /\ out' = [out EXCEPT !.status = "error"]
    /\ model' = <<uploaded[1].content>>
    /\ pc' = "opened"
    /\ UNCHANGED <<uploaded, storey_map, rows, origin, df, exc>>

\* Lines 138-140: ifcopenshell.open raises; st.error, then st.stop ends the run.
OpenFail ==
    /\ pc = "start"
    /\ uploaded # <<>>
    /\ ~uploaded[1].parses
    /\ out' = [out EXCEPT !.status = "error"]
    /\ pc' = "stopped"
    /\ UNCHANGED <<uploaded, model, storey_map, rows, origin, df, exc>>

\* Line 144 calls extract_elements; line 61.
BuildStoreyMap ==
    /\ pc = "opened"
    /\ LET r == build_storey_map(model[1])
       IN IF r.raised
          THEN /\ pc' = "raised"
               /\ exc' = "AttributeError"
               /\ UNCHANGED storey_map
          ELSE /\ pc' = "mapped"
               /\ storey_map' = r.map
               /\ UNCHANGED exc
    /\ UNCHANGED <<uploaded, model, rows, origin, df, out>>

\* Lines 63-92.
CuratedSweep ==
    /\ pc = "mapped"
    /\ LET r == curated_sweep(model[1], storey_map)
       IN /\ rows' = r.rows
          /\ origin' = r.origin
          /\ IF r.raised
             THEN pc' = "raised" /\ exc' = "Exception"
             ELSE pc' = "curated" /\ UNCHANGED exc
    /\ UNCHANGED <<uploaded, model, storey_map, df, out>>

\* Lines 96-116.
CatchAllSweep ==
    /\ pc = "curated"
    /\ LET r == catchall_sweep(model[1], storey_map, rows, origin)
       IN /\ rows' = r.rows
          /\ origin' = r.origin
          /\ IF r.raised
             THEN pc' = "raised" /\ exc' = "Exception"
             ELSE pc' = "swept" /\ UNCHANGED exc
    /\ UNCHANGED <<uploaded, model, storey_map, df, out>>

\* Lines 118-123, and the return to line 144.
AssembleTable ==
    /\ pc = "swept"
    /\ IF AssembleRaises(rows)
       THEN /\ pc' = "raised"
            /\ exc' = "KeyError"
            /\ UNCHANGED df
       ELSE /\ pc' = "extracted"
            /\ df' = <<assemble(rows)>>
            /\ UNCHANGED exc
    /\ UNCHANGED <<uploaded, model, storey_map, rows, origin, out>>

\* The values of df["IfcClass"].
Classes(t) == {t[i].IfcClass : i \in 1..Len(t)}

\* Lines 158-162.
Filtered(t, ifcclass, show_only_with_volume) ==
    SelectSeq(t, LAMBDA r :
        /\ (ifcclass # {} => r.IfcClass \in ifcclass)
        /\ (show_only_with_volume => notna(r.Volume_m3)))

\* Lines 146-170: the counts, the filters' values, the table and the download.
Show ==
    /\ pc = "extracted"
    /\ \E ifcclass \in {{}} \cup {{c} : c \in Classes(df[1])},
          show_only_with_volume \in BOOLEAN :
          out' = [status |-> "table",
                  elements |-> Len(df[1]),
                  vols_present |->
                      Cardinality({i \in 1..Len(df[1]) : notna(df[1][i].Volume_m3)}),
                  table |-> Filtered(df[1], ifcclass, show_only_with_volume),
                  download |-> TRUE]
    /\ pc' = "done"
    /\ UNCHANGED <<uploaded, model, storey_map, rows, origin, df, exc>>

Next ==
    \/ NoUpload
    \/ OpenOk
    \/ OpenFail
    \/ BuildStoreyMap
    \/ CuratedSweep
    \/ CatchAllSweep
    \/ AssembleTable
    \/ Show

-----------------------------------------------------------------------------
(* The uploaded files.                                                     *)

Entity(t, gid, name, defs) ==
    [ type |-> t, GlobalId |-> gid, Name |-> name, LongName |-> None,
      ObjectType |-> None, PredefinedType |-> None, IsDefinedBy |-> defs ]

EmptyModel == [entities |-> <<>>, rels |-> <<>>, scale |-> 1]

\* The script's state before a run, with file the uploader's value.
InitWith(file) ==
    /\ uploaded = file
    /\ pc = "start"
    /\ model = <<>>
    /\ storey_map = EmptyDict
    /\ rows = <<>>
    /\ origin = <<>>
    /\ df = <<>>
    /\ exc = "none"
    /\ out = NoOutput

\* Nothing uploaded, or a file that does not parse.
InitNoModel ==
    \E file \in {<<>>, << [parses |-> FALSE, content |-> EmptyModel] >>} :
        InitWith(file)

\* A file that parses to the model of these entities, relationships and scale.
InitModel(es, rs, s) ==
    InitWith(<< [parses |-> TRUE,
                 content |-> [entities |-> es, rels |-> rs, scale |-> s]] >>)

GlobalIds == {None, "g1", "g2"}

\* Models that differ in the types and the identities of their entities.
SweepTypes ==
    {"IfcWall", "IfcWallStandardCase", "IfcBuildingElementProxy",
     "IfcBuildingStorey", "IfcFurniture"}

SweepEntities == {Entity(t, g, None, <<>>) : t \in SweepTypes, g \in GlobalIds}

Init ==
    \/ InitNoModel
    \/ \E n \in 0..MaxEntities : \E es \in [1..n -> SweepEntities] :
           InitModel(es, <<>>, 1)

Spec == Init /\ [][Next]_vars

-----------------------------------------------------------------------------
(* Properties of the sweeps and of the script, under Spec.                 *)

\* The indices of the model's entities.
Entities == 1..Len(model[1].entities)

EntityAt(i) == model[1].entities[i]

\* The spatial containers: building, site, storey.
SpatialContainers == {"IfcBuilding", "IfcSite", "IfcBuildingStorey"}

\* The sweeps are over: pc is past line 116.
Swept == pc \in {"swept", "extracted", "done"} \/ (pc = "raised" /\ exc = "KeyError")

\* C1: the table returned by extract_elements holds no two records with the
\* same non-null GlobalId.
C1_UniqueIdentity ==
    df # <<>> =>
        \A i, j \in 1..Len(df[1]) :
            (i < j /\ df[1][i].GlobalId # None) => df[1][i].GlobalId # df[1][j].GlobalId

\* C2: when the sweeps collect no row, extract_elements ends without an error
\* and returns a table of zero records, and the count of records with a
\* volume shown for it is 0.
C2_EmptyModel ==
    (Swept /\ pc # "swept" /\ rows = <<>>) =>
        /\ exc = "none"
        /\ df = << <<>> >>
        /\ (pc = "done" => out.elements = 0 /\ out.vols_present = 0)

\* C8: when opening the uploaded bytes fails, the failure is reported and the
\* run stops: extract_elements is not called, and no table, count or download
\* is produced; extract_elements is only called after an open that succeeded.
C8_ParseFailureStops ==
    /\ (uploaded # <<>> /\ ~uploaded[1].parses) =>
           /\ pc \in {"start", "stopped"}
           /\ model = <<>> /\ rows = <<>> /\ df = <<>>
           /\ out.status # "table" /\ out.elements = 0 /\ ~out.download
           /\ (pc = "stopped" => out.status = "error")
    /\ (pc \notin {"start", "idle", "stopped"}) =>
           /\ uploaded # <<>> /\ uploaded[1].parses
           /\ model = << uploaded[1].content >>
    /\ (pc \in {"start", "idle", "stopped"}) => (rows = <<>> /\ df = <<>>)

\* A failed open was reported and the run stopped.
C8_Witness == pc = "stopped" /\ out.status = "error" /\ ~uploaded[1].parses

\* C9: in the IfcProduct sweep the entities skipped for their type are
\* exactly the spatial containers: every entity of another type whose
\* identity is not yet in the rows gets a record.
C9_SkipSet ==
    Swept =>
        \A i \in Entities :
            IF EntityAt(i).type \in SpatialContainers
            THEN \A n \in 1..Len(origin) : origin[n] # i
            ELSE \/ \E n \in 1..Len(origin) : origin[n] = i
                 \/ \E n \in 1..Len(rows) :
                        origin[n] # i /\ rows[n].GlobalId = EntityAt(i).GlobalId
                                      /\ EntityAt(i).GlobalId # None

\* C10: a null GlobalId is no deduplication key: every entity with a null
\* GlobalId that the sweeps do not skip for its type yields a record.
C10_NullIdentityKept ==
    Swept =>
        \A i \in Entities :
            (EntityAt(i).GlobalId = None /\ ~IsSpatial(EntityAt(i).type)) =>
                \E n \in 1..Len(origin) : origin[n] = i

-----------------------------------------------------------------------------
(* Containment: models that differ in their containment relationships,     *)
(* under SpecLevel.  A relationship may lack its RelatingStructure.        *)

Storey(name, longname, gid) ==
    [present |-> TRUE, Name |-> name, LongName |-> longname, GlobalId |-> gid]

\* rel.RelatingStructure is None.
NoStorey == [present |-> FALSE, Name |-> None, LongName |-> None, GlobalId |-> None]

Storeys ==
    { NoStorey,
      Storey("L1", None, "s1"),
      Storey("", "L2", "s2"),
      Storey(None, None, "s3") }

\* The sequences of distinct entity indices of a model of n entities, in
\* increasing order.
IndexSeqs(n) ==
    {s \in SeqsUpTo(1..n, n) : \A i, j \in 1..Len(s) : i < j => s[i] < s[j]}

LevelEntities ==
    {Entity("IfcSlab", None, None, <<>>), Entity("IfcSlab", "g1", None, <<>>),
     Entity("IfcFurniture", "g1", None, <<>>), Entity("IfcFurniture", "g2", None, <<>>)}

Containments(n) ==
    {[RelatingStructure |-> st, RelatedElements |-> re] :
        st \in Storeys, re \in IndexSeqs(n)}

InitLevel ==
    \/ InitNoModel
    \/ \E n \in 0..MaxEntities : \E es \in [1..n -> LevelEntities] :
           \E k \in 0..MaxRels : \E rs \in [1..k -> Containments(n)] :
               InitModel(es, rs, 1)

SpecLevel == InitLevel /\ [][Next]_vars

Rels == 1..Len(model[1].rels)

RelAt(r) == model[1].rels[r]

Max(S) == CHOOSE x \in S : \A y \in S : y <= x

\* The label the containing structure resolves to: Name, else LongName, else
\* "Storey_" + GlobalId.
ResolvedLabel(st) ==
    IF st.Name # None /\ st.Name # "" THEN st.Name
    ELSE IF st.LongName # None /\ st.LongName # "" THEN st.LongName
    ELSE "Storey_" \o st.GlobalId

\* C3: build_storey_map propagates no exception: a malformed relationship
\* record is skipped and the entries of the other records are in the map.
C3_IndexerTolerant ==
    (model # <<>> /\ pc # "opened") =>
        /\ exc # "AttributeError"
        /\ \A r \in Rels :
               RelAt(r).RelatingStructure.present =>
                   \A j \in 1..Len(RelAt(r).RelatedElements) :
                       EntityAt(RelAt(r).RelatedElements[j]).GlobalId \in DOMAIN storey_map

\* The relationships that list entity i in RelatedElements.
Containing(i) ==
    {r \in Rels : \E j \in 1..Len(RelAt(r).RelatedElements) :
                      RelAt(r).RelatedElements[j] = i}

\* No two entities of the model share a non-null GlobalId.
IdentitiesUnique ==
    \A i, j \in Entities :
        (i # j /\ EntityAt(i).GlobalId # None) => EntityAt(i).GlobalId # EntityAt(j).GlobalId

\* C5: the Level of the record of an element is the resolved label of the
\* last relationship, in scan order, that lists the element in
\* RelatedElements, and null when no relationship lists it (in a model whose
\* non-null GlobalIds are unique).
C5_LevelOfElement ==
    (Swept /\ IdentitiesUnique) =>
        \A n \in 1..Len(rows) :
            IF Containing(origin[n]) = {}
            THEN rows[n].Level = None
            ELSE rows[n].Level =
                     ResolvedLabel(RelAt(Max(Containing(origin[n]))).RelatingStructure)

-----------------------------------------------------------------------------
(* Quantities: what an element's IsDefinedBy may hold.                     *)

\* A quantity that is no IfcQuantityVolume.
QuantityArea ==
    [kind |-> "IfcQuantityArea", hasVolumeValue |-> FALSE, VolumeValue |-> NoneCell,
     hasVolume |-> FALSE, Volume |-> NoneCell]

\* An IfcQuantityVolume with the attribute VolumeValue.
QuantityVolume(c) ==
    [kind |-> "IfcQuantityVolume", hasVolumeValue |-> TRUE, VolumeValue |-> c,
     hasVolume |-> FALSE, Volume |-> NoneCell]

\* An IfcQuantityVolume with the attribute Volume instead.
QuantityVolumeAlias(c) ==
    [kind |-> "IfcQuantityVolume", hasVolumeValue |-> FALSE, VolumeValue |-> NoneCell,
     hasVolume |-> TRUE, Volume |-> c]

\* A relationship with no RelatingPropertyDefinition (IfcRelDefinesByType).
NoPropDef == [kind |-> "none", Quantities |-> <<>>]

PropertySet == [kind |-> "IfcPropertySet", Quantities |-> <<>>]

ElementQuantity(qs) == [kind |-> "IfcElementQuantity", Quantities |-> qs]

DefinedBy(propdef) == [RelatingPropertyDefinition |-> propdef]

\* The quantities of an element, in the order the loops of lines 30-33 meet
\* them.
RECURSIVE Flat(_)
Flat(defs) ==
    IF defs = <<>> THEN <<>>
    ELSE LET propdef == defs[1].RelatingPropertyDefinition
         IN (IF propdef.kind = "IfcElementQuantity" THEN propdef.Quantities ELSE <<>>)
                \o Flat(Tail(defs))

\* The value of a quantity: VolumeValue, else Volume.
ValueOf(q) ==
    IF q.hasVolumeValue THEN q.VolumeValue
    ELSE IF q.hasVolume THEN q.Volume
    ELSE NoneCell

\* The positions of the volume quantities with a non-null value.
Hits(defs) ==
    LET flat == Flat(defs)
    IN {n \in 1..Len(flat) :
           flat[n].kind = "IfcQuantityVolume" /\ ValueOf(flat[n]).k # "none"}

Min(S) == CHOOSE x \in S : \A y \in S : x <= y

FirstValue(defs) == ValueOf(Flat(defs)[Min(Hits(defs))])

\* Processing the element meets a value float() cannot convert.
HasTraversalError(el) ==
    Hits(el.IsDefinedBy) # {} /\ FirstValue(el.IsDefinedBy).k = "str"

-----------------------------------------------------------------------------
(* Error isolation: models in which the quantities of some elements cannot *)
(* be read, under SpecIsolation.                                           *)

IsolationDefs ==
    { <<>>,
      << DefinedBy(ElementQuantity(<< QuantityVolume(Float(2)) >>)) >>,
      << DefinedBy(ElementQuantity(<< QuantityVolume(Str) >>)) >>,
      << DefinedBy(ElementQuantity(<< QuantityVolume(NoneCell), QuantityVolume(Str),
                                      QuantityVolume(Float(2)) >>)) >> }

IsolationEntities ==
    {Entity(t, g, None, d) :
        t \in {"IfcSlab", "IfcFurniture"}, g \in {"g1", "g2"}, d \in IsolationDefs}

InitIsolation ==
    \/ InitNoModel
    \/ \E n \in 0..MaxEntities : \E es \in [1..n -> IsolationEntities] :
           InitModel(es, <<>>, 2)

SpecIsolation == InitIsolation /\ [][Next]_vars

\* C4: a failure while get_volume_from_quantities processes an element
\* raises nothing: the run is not ended by it, the element still gets its
\* record, with a null Volume_m3, and so does every other element (unless a
\* record of its GlobalId is there already); the returned table holds them all.
C4_ErrorIsolation ==
    /\ exc # "Exception"
    /\ (model # <<>> /\ \E i \in Entities : HasTraversalError(EntityAt(i))) =>
           pc # "raised"
    /\ \A n \in 1..Len(rows) :
           HasTraversalError(EntityAt(origin[n])) => rows[n].Volume_m3 = NoneCell
    /\ Swept =>
           \A i \in Entities :
               \/ \E n \in 1..Len(origin) : origin[n] = i
               \/ \E n \in 1..Len(rows) : rows[n].GlobalId = EntityAt(i).GlobalId
    /\ df # <<>> =>
           /\ Len(df[1]) = Len(rows)
           /\ Cardinality({n \in 1..Len(rows) : rows[n].Volume_m3.k = "float"})
                  = Cardinality({n \in 1..Len(df[1]) : notna(df[1][n].Volume_m3)})

\* The run is over, with the record of an element that could not be read
\* and the record, with its volume, of another.
C4_Witness ==
    /\ pc = "done"
    /\ \E n, k \in 1..Len(rows) :
           /\ HasTraversalError(EntityAt(origin[n]))
           /\ rows[n].Volume_m3 = NoneCell
           /\ origin[k] > origin[n]
           /\ rows[k].Volume_m3.k = "float"
    /\ out.elements = Len(rows)

-----------------------------------------------------------------------------
(* Volume resolution: one element, all the shapes of its IsDefinedBy,      *)
(* under SpecVolume.  The run is at line 63: the model is open and its     *)
(* storey map, of no relationship, is built.                               *)

VolumeQuantities ==
    { QuantityArea, QuantityVolume(NoneCell), QuantityVolume(Float(0)),
      QuantityVolumeAlias(Float(3)) }

PropDefs(budget) ==
    {NoPropDef, PropertySet}
        \cup {ElementQuantity(qs) : qs \in SeqsUpTo(VolumeQuantities, budget)}

\* The IsDefinedBy of at most r relationships and budget quantities.
RECURSIVE DefinedBySeqs(_, _)
DefinedBySeqs(r, budget) ==
    IF r = 0 THEN {<<>>}
    ELSE {<<>>} \cup
         UNION { {<<DefinedBy(p)>> \o rest :
                     rest \in DefinedBySeqs(r - 1, budget - Len(p.Quantities))} :
                 p \in PropDefs(budget) }

Scales == {1, 10}

InitVolume ==
    \E defs \in DefinedBySeqs(MaxDefRels, MaxQuantities), s \in Scales,
       t \in {"IfcSlab", "IfcFurniture"} :
        LET m == [entities |-> << Entity(t, "g1", None, defs) >>,
                  rels |-> <<>>, scale |-> s]
        IN /\ uploaded = << [parses |-> TRUE, content |-> m] >>
           /\ pc = "mapped"
           /\ model = << m >>
           /\ storey_map = EmptyDict
           /\ rows = <<>>
           /\ origin = <<>>
           /\ df = <<>>
           /\ exc = "none"
           /\ out = NoOutput

NextSweeps == CuratedSweep \/ CatchAllSweep

SpecVolume == InitVolume /\ [][NextSweeps]_vars

\* v * s^3 for the first volume quantity with a non-null value; null when
\* there is none.
ExpectedVolume(el, s) ==
    IF Hits(el.IsDefinedBy) = {} THEN NoneCell
    ELSE Float(FirstValue(el.IsDefinedBy).v * s * s * s)

\* C6: the volume of an element that is read without error is v * s^3, v the
\* value (VolumeValue, else Volume) of the first IfcQuantityVolume with a
\* non-null value in scan order and s the length unit scale; later values
\* are neither added nor substituted; it is null exactly when there is no
\* such quantity.
C6_VolumeResolution ==
    /\ \A n \in 1..Len(rows) :
           LET el == EntityAt(origin[n])
               hits == Hits(el.IsDefinedBy)
           IN /\ rows[n].Volume_m3 = ExpectedVolume(el, model[1].scale)
              /\ rows[n].Volume_m3 = NoneCell <=> hits = {}
    /\ pc = "swept" => \A i \in Entities : \E n \in 1..Len(origin) : origin[n] = i

\* The volume of the record is that of the second quantity the scan meets,
\* in the second relationship, scaled; a quantity of another value follows.
C6_Witness ==
    /\ pc = "swept"
    /\ model[1].scale > 1
    /\ \E n \in 1..Len(rows) :
           LET defs == EntityAt(origin[n]).IsDefinedBy
           IN /\ Len(defs) = 2
              /\ defs[1].RelatingPropertyDefinition.kind = "IfcElementQuantity"
              /\ Len(defs[1].RelatingPropertyDefinition.Quantities) = 1
              /\ Hits(defs) # {}
              /\ Min(Hits(defs)) = 2
              /\ \E h \in Hits(defs) : ValueOf(Flat(defs)[h]) # FirstValue(defs)
              /\ rows[n].Volume_m3.k = "float"
              /\ rows[n].Volume_m3.v > 0

-----------------------------------------------------------------------------
(* Sort order: models whose records differ in class, level and name, under *)
(* SpecSort.  A storey "L2" contains the elements of GlobalId "g2", a      *)
(* storey "L1" those of GlobalId "g1" or "g3".                             *)

SortEntities ==
    {Entity(t, g, nm, <<>>) :
        t \in {"IfcWall", "IfcSlab"}, g \in {None, "g1", "g2", "g3"}, nm \in {None, "b"}}

IndicesWith(es, gids) ==
    SelectSeq([i \in 1..Len(es) |-> i], LAMBDA i : es[i].GlobalId \in gids)

SortRels(es) ==
    << [RelatingStructure |-> Storey("L2", None, "s2"),
        RelatedElements |-> IndicesWith(es, {"g2"})],
       [RelatingStructure |-> Storey("L1", None, "s1"),
        RelatedElements |-> IndicesWith(es, {"g1", "g3"})] >>

InitSort ==
    \/ InitNoModel
    \/ \E n \in 0..MaxSortEntities : \E es \in [1..n -> SortEntities] :
           InitModel(es, SortRels(es), 1)

SpecSort == InitSort /\ [][Next]_vars

\* The strings of the records' sort columns, in ascending order.
SortedStrings == <<"", "IfcSlab", "IfcWall", "L1", "L2", "b">>

Rank(x) == CHOOSE i \in 1..Len(SortedStrings) : SortedStrings[i] = x

\* a before b in one column, a null after every string.
ColLess(a, b) == a # None /\ (b = None \/ Rank(a) < Rank(b))

\* (a.IfcClass, a.Level, a.Name) <= (b.IfcClass, b.Level, b.Name)
KeyLeq(a, b) ==
    \/ ColLess(a.IfcClass, b.IfcClass)
    \/ /\ a.IfcClass = b.IfcClass
       /\ \/ ColLess(a.Level, b.Level)
          \/ a.Level = b.Level /\ (ColLess(a.Name, b.Name) \/ a.Name = b.Name)

SameKey(a, b) == a.IfcClass = b.IfcClass /\ a.Level = b.Level /\ a.Name = b.Name

\* The collected rows, as the table's numeric column holds them.
Collected ==
    [n \in 1..Len(rows) |->
        [rows[n] EXCEPT !.Volume_m3 = IF @.k = "float" THEN @ ELSE NaN]]

Count(t, r) == Cardinality({n \in 1..Len(t) : t[n] = r})

\* C7: in the returned table every adjacent pair of records is in the order
\* of (IfcClass, Level, Name), a null Level after every other of its class;
\* the table is a permutation of the collected rows; records equal on the
\* three keys keep their collection order.
C7_SortOrder ==
    df # <<>> =>
        LET t == df[1]
        IN /\ \A n \in 1..(Len(t) - 1) : KeyLeq(t[n], t[n + 1])
           /\ Len(t) = Len(Collected)
           /\ \A n \in 1..Len(t) : Count(t, t[n]) = Count(Collected, t[n])
           /\ \A n \in 1..Len(t) :
                  SelectSeq(t, LAMBDA r : SameKey(r, t[n]))
                      = SelectSeq(Collected, LAMBDA r : SameKey(r, t[n]))

\* A table of three records that the sort reordered, with a null Level after
\* a Level of the same class and two different records of the same keys.
C7_Witness ==
    /\ df # <<>>
    /\ Len(df[1]) >= 3
    /\ df[1] # Collected
    /\ \E n \in 1..(Len(df[1]) - 1) :
           /\ df[1][n].IfcClass = df[1][n + 1].IfcClass
           /\ df[1][n].Level # None
           /\ df[1][n + 1].Level = None
    /\ \E n, k \in 1..Len(df[1]) :
           n < k /\ SameKey(df[1][n], df[1][k]) /\ df[1][n] # df[1][k]

====
